---- MODULE Spec2Model ----
(***************************************************************************)
(* Model of integrators/bdpt.h: EndpointInteraction, ScopedAssign, Vertex  *)
(* and the connection / MIS engine declared there (ConnectBDPT).           *)
(***************************************************************************)
EXTENDS Integers, Sequences, FiniteSets, TLC

VARIABLES
    vtx,      \* the Vertex under construction / query
    res,      \* the outcome of the last accessor or query called on vtx
    mem,      \* ScopedAssign scope: the fields guards may target
    guards,   \* ScopedAssign scope: the guards, in declaration order
    gpc,      \* ScopedAssign scope: position of the enclosing scope
    orig,     \* ScopedAssign scope: the fields' values on scope entry
    nops,     \* ScopedAssign scope: operations performed so far
    path,     \* ConnectBDPT: the fused path the strategies decompose
    conn      \* ConnectBDPT: record of the calls made on that path

vars == <<vtx, res, mem, guards, gpc, orig, nops, path, conn>>

vertexVars == <<vtx, res>>
guardVars == <<mem, guards, gpc, orig, nops>>
connVars == <<path, conn>>

(***************************************************************************)
(* ScopedAssign<Type>  (bdpt.h 89-107)                                     *)
(* A guard is [target, backup]; target is an address of the memory map or  *)
(* nullptr.  The memory map is a function from addresses to values.        *)
(***************************************************************************)
nullptr == <<>>

\* ScopedAssign(Type *ptr = nullptr, Type value = Type()): backup is written
\* only when target is non-null; otherwise it keeps an indeterminate value
\* (junk).  Yields the new memory and the guard.
SA_Construct_NoInstall(m, ptr, value, junk) ==
    [m |-> m,
     g |-> [target |-> ptr, backup |-> IF ptr # nullptr THEN m[ptr] ELSE junk]]

SA_Construct(m, ptr, value, junk) ==
    IF ptr # nullptr
    THEN [m |-> [m EXCEPT ![ptr] = value],
          g |-> [target |-> ptr, backup |-> m[ptr]]]
    ELSE [m |-> m, g |-> [target |-> nullptr, backup |-> junk]]

\* ScopedAssign &operator=(ScopedAssign &&other): the receiving guard's own
\* target and backup are overwritten without being restored.
SA_MoveAssign(this, other) ==
    [this |-> [target |-> other.target, backup |-> other.backup],
     other |-> [other EXCEPT !.target = nullptr]]

\* ~ScopedAssign(): if (target) *target = backup.
SA_Destroy_NoRestore(m, g) == m

SA_Destroy(m, g) ==
    IF g.target # nullptr THEN [m EXCEPT ![g.target] = g.backup] ELSE m

(***************************************************************************)
(* A scope that uses ScopedAssign guards (specification SpecGuard).        *)
(***************************************************************************)
NumFields == 2
MaxVal == 2
NumGuards == 3
MaxOps == 4

Fields == {<<f>> : f \in 1..NumFields}
Values == 0..MaxVal

NoGuard == [st |-> "undeclared", target |-> nullptr, backup |-> 0]

Declared(k) == guards[k].st = "live"
NextDecl == IF \E k \in 1..NumGuards : guards[k].st = "undeclared"
            THEN CHOOSE k \in 1..NumGuards :
                    /\ guards[k].st = "undeclared"
                    /\ \A j \in 1..(k - 1) : guards[j].st # "undeclared"
            ELSE 0
LastLive == IF \E k \in 1..NumGuards : Declared(k)
            THEN CHOOSE k \in 1..NumGuards :
                    /\ Declared(k)
                    /\ \A j \in (k + 1)..NumGuards : ~Declared(j)
            ELSE 0

Live(g) == [st |-> "live", target |-> g.target, backup |-> g.backup]

InitGuard ==
    /\ mem \in [Fields -> Values]
    /\ orig = mem
    /\ guards = [k \in 1..NumGuards |-> NoGuard]
    /\ gpc = "scope"
    /\ nops = 0
    /\ vtx = [how |-> "none"]
    /\ res = [op |-> "none"]
    /\ path = <<>>
    /\ conn = [pc |-> "idle"]

\* ScopedAssign<T> g;  (default construction of an empty guard)
DeclareEmpty ==
    /\ gpc = "scope" /\ NextDecl # 0 /\ nops < MaxOps
    /\ \E junk \in Values :
         LET c == SA_Construct(mem, nullptr, 0, junk) IN
         /\ mem' = c.m
         /\ guards' = [guards EXCEPT ![NextDecl] = Live(c.g)]
    /\ nops' = nops + 1
    /\ UNCHANGED <<gpc, orig, vertexVars, connVars>>

\* ScopedAssign<T> g(&field, value);
DeclareOn ==
    /\ gpc = "scope" /\ NextDecl # 0 /\ nops < MaxOps
    /\ \E f \in Fields, v \in Values :
         LET c == SA_Construct(mem, f, v, 0) IN
         /\ mem' = c.m
         /\ guards' = [guards EXCEPT ![NextDecl] = Live(c.g)]
    /\ nops' = nops + 1
    /\ UNCHANGED <<gpc, orig, vertexVars, connVars>>

\* g = ScopedAssign<T>(&field, value) (or g = {&field, value}): a temporary
\* is constructed, moved into g, and destroyed at the end of the statement.
AssignTemp ==
    /\ gpc = "scope" /\ nops < MaxOps
    /\ \E k \in 1..NumGuards, f \in Fields, v \in Values :
         /\ Declared(k)
         /\ LET c == SA_Construct(mem, f, v, 0)
                a == SA_MoveAssign(guards[k], c.g)
            IN /\ mem' = SA_Destroy(c.m, a.other)
               /\ guards' = [guards EXCEPT ![k] = Live(a.this)]
    /\ nops' = nops + 1
    /\ UNCHANGED <<gpc, orig, vertexVars, connVars>>

\* g = std::move(h) between two guards of the scope.
AssignMove ==
    /\ gpc = "scope" /\ nops < MaxOps
    /\ \E k \in 1..NumGuards, j \in 1..NumGuards :
         /\ k # j /\ Declared(k) /\ Declared(j)
         /\ LET a == SA_MoveAssign(guards[k], guards[j]) IN
            guards' = [guards EXCEPT ![k] = Live(a.this), ![j] = Live(a.other)]
    /\ nops' = nops + 1
    /\ UNCHANGED <<mem, gpc, orig, vertexVars, connVars>>

\* The scope is left (end of block or an early return).
LeaveScope ==
    /\ gpc = "scope"
    /\ gpc' = IF LastLive = 0 THEN "done" ELSE "exit"
    /\ UNCHANGED <<mem, guards, orig, nops, vertexVars, connVars>>

\* Destructors run in reverse order of declaration.
DestroyGuard ==
    /\ gpc = "exit" /\ LastLive # 0
    /\ mem' = SA_Destroy(mem, guards[LastLive])
    /\ guards' = [guards EXCEPT ![LastLive].st = "dead"]
    /\ gpc' = IF \E k \in 1..NumGuards : k # LastLive /\ Declared(k)
              THEN "exit" ELSE "done"
    /\ UNCHANGED <<orig, nops, vertexVars, connVars>>

NextGuard ==
    \/ DeclareEmpty
    \/ DeclareOn
    \/ AssignTemp
    \/ AssignMove
    \/ LeaveScope
    \/ DestroyGuard

SpecGuard == InitGuard /\ [][NextGuard]_vars

(***************************************************************************)
(* Arithmetic used by the density computations: exact rationals and 2-D    *)
(* integer vectors standing for Float, Point3f, Vector3f and Normal3f.     *)
(***************************************************************************)
RECURSIVE GCD(_, _)
GCD(a, b) == IF b = 0 THEN a ELSE GCD(b, a % b)

Rat(n, d) == IF n = 0 THEN [n |-> 0, d |-> 1]
             ELSE [n |-> n \div GCD(n, d), d |-> d \div GCD(n, d)]
RMul(a, b) == Rat(a.n * b.n, a.d * b.d)
RAdd(a, b) == Rat(a.n * b.d + b.n * a.d, a.d * b.d)
RInv(a) == Rat(a.d, a.n)
RZero == Rat(0, 1)
ROne == Rat(1, 1)

Abs(x) == IF x < 0 THEN -x ELSE x
VZero == <<0, 0>>
VAdd(a, b) == <<a[1] + b[1], a[2] + b[2]>>
VSub(a, b) == <<a[1] - b[1], a[2] - b[2]>>
VNeg(a) == <<-a[1], -a[2]>>
Dot(a, b) == a[1] * b[1] + a[2] * b[2]
LengthSquared(a) == Dot(a, a)
IsSquare(x) == \E k \in 0..x : k * k = x
ISqrt(x) == CHOOSE k \in 0..x : k * k = x
\* AbsDot(n, Normalize(d)) for a displacement d of integral length
AbsDotNormalized(n, d) == Rat(Abs(Dot(n, d)), ISqrt(LengthSquared(d)))

(***************************************************************************)
(* Scene, lights, cameras, BSDFs: the collaborators bdpt.h reads.          *)
(***************************************************************************)
\* LightFlags is a bit mask; a flags value is the set of its bits.
LF_DeltaPosition == {"DeltaPosition"}
LF_DeltaDirection == {"DeltaDirection"}
LF_Area == {"Area"}
LF_Infinite == {"Infinite"}
\* ::IsDeltaLight(flags): either delta bit is set
FlagsIsDeltaLight(flags) ==
    "DeltaPosition" \in flags \/ "DeltaDirection" \in flags

\* scene.lights: the flags of each light, and lightDistr.func
sceneLights == << LF_DeltaPosition, LF_DeltaDirection, LF_Area, LF_Infinite,
                  LF_Infinite \cup LF_DeltaDirection >>
lightDistrFunc == << 1, 2, 1, 1, 1 >>
AreaLightIdx == {i \in DOMAIN sceneLights : sceneLights[i] = LF_Area}

RECURSIVE SumSeq(_)
SumSeq(q) == IF q = <<>> THEN 0 ELSE Head(q) + SumSeq(Tail(q))
\* lightDistr.funcInt * lightDistr.Count(): the sum of func
FuncIntTimesCount == SumSeq(lightDistrFunc)

\* References held by an endpoint or a primitive
NullRef == [kind |-> "null", idx |-> 0]
CameraRef == [kind |-> "camera", idx |-> 0]
LightRef(i) == [kind |-> "light", idx |-> i]
LightRefs == {LightRef(i) : i \in DOMAIN sceneLights}
FlagsOf(ref) == sceneLights[ref.idx]

\* BxDFType is a bit mask as well
BSDF_NonSpecular == {"REFLECTION", "TRANSMISSION", "DIFFUSE", "GLOSSY"}
BxDFTypes == { {"REFLECTION", "DIFFUSE"}, {"REFLECTION", "SPECULAR"},
               {"TRANSMISSION", "GLOSSY"}, {"TRANSMISSION", "SPECULAR"} }
MaxBxDFs == 2
BSDFs == UNION {[1..k -> BxDFTypes] : k \in 0..MaxBxDFs}
\* BxDF::MatchesFlags(t): (type & t) == type
MatchesFlags(type, t) == (type \cap t) = type
\* BSDF::NumComponents(flags)
NumComponents(bsdf, flags) ==
    Cardinality({i \in DOMAIN bsdf : MatchesFlags(bsdf[i], flags)})

(***************************************************************************)
(* Interaction and EndpointInteraction  (bdpt.h 53-74)                     *)
(***************************************************************************)
Points == { <<0, 0>>, <<3, 0>>, <<0, 4>> }
Normals == { VZero, <<1, 0>>, <<0, 1>> }
Dirs == { <<1, 0>>, <<0, 1>> }
Times == {0, 1}
Interactions == [p : Points, n : Normals, time : Times]
Rays == [o : Points, d : Dirs, time : Times]
NoRay == [o |-> VZero, d |-> VZero, time |-> 0]
RayAt(ray, t) == VAdd(ray.o, <<t * ray.d[1], t * ray.d[2]>>)

\* An EndpointInteraction: the Interaction base, the pointer stored in the
\* camera/light union (ref), and which union member the constructor
\* initialised (member).  mode and ray remember the constructor used.
EI(p, n, time, member, ref, mode, ray) ==
    [p |-> p, n |-> n, time |-> time, member |-> member, ref |-> ref,
     mode |-> mode, ray |-> ray]

\* EndpointInteraction() : Interaction(), light(nullptr)
EI_Default == EI(VZero, VZero, 0, "light", NullRef, "default", NoRay)
\* EndpointInteraction(const Interaction &it, const Camera *camera)
EI_FromInteractionCamera(it, camera) ==
    EI(it.p, it.n, it.time, "camera", camera, "a", NoRay)
\* EndpointInteraction(const Camera *camera, const Ray &ray)
EI_FromCameraRay(camera, ray) ==
    EI(ray.o, VZero, ray.time, "camera", camera, "b", ray)
\* EndpointInteraction(const Light *light, const Ray &r, const Normal3f &_n)
EI_FromLightRay(light, r, nl) ==
    EI(r.o, nl, r.time, "light", light, "c", r)
\* EndpointInteraction(const Interaction &it, const Light *light)
EI_NullLight(it, light) ==
    EI(it.p, it.n, it.time, "light", NullRef, "d", NoRay)
EI_FromInteractionLight(it, light) ==
    EI(it.p, it.n, it.time, "light", light, "d", NoRay)
\* EndpointInteraction(const Ray &ray): ray(1.f), n = -ray.d, light(nullptr)
EI_FromRay(ray) ==
    EI(RayAt(ray, 1), VNeg(ray.d), ray.time, "light", NullRef, "e", ray)

(***************************************************************************)
(* Vertex  (bdpt.h 132-325)                                                *)
(***************************************************************************)
Camera == 0
Light == 1
Surface == 2
Medium == 3
\* any value of the underlying integer that is none of the enumerators
OtherType == Medium + 1
VertexTypes == {Camera, Light, Surface, Medium}

\* A Vertex.  how: the constructor used; wrote: the member of the
\* InteractionAggregate the constructor initialised; ei / p, n, time: the
\* payload; sn: isect.shading.n; bsdf: isect.bsdf; areaLight:
\* isect.primitive->GetAreaLight().
MkVertex(how, type, wrote, ei, p, n, time, sn, bsdf, areaLight) ==
    [how |-> how, type |-> type, wrote |-> wrote, ei |-> ei,
     p |-> p, n |-> n, time |-> time, sn |-> sn, bsdf |-> bsdf,
     areaLight |-> areaLight, pdfFwd |-> 0, pdfRev |-> 0, delta |-> FALSE]

NoVertex == [how |-> "none"]
Built == {"endpoint", "surface", "medium"}

\* Vertex() = default: type is left uninitialised, interaction is ei()
Vertex_Default(type) ==
    MkVertex("default", type, "ei", EI_Default, VZero, VZero, 0, VZero,
             <<>>, NullRef)
\* Vertex(VertexType type, const EndpointInteraction &ei, const Spectrum &)
Vertex_Endpoint(type, ei) ==
    MkVertex("endpoint", type, "ei", ei, ei.p, ei.n, ei.time, VZero,
             <<>>, NullRef)
\* Vertex(const SurfaceInteraction &isect, const Spectrum &weight)
Vertex_Surface(it, sn, bsdf, areaLight) ==
    MkVertex("surface", Surface, "isect", EI_Default, it.p, it.n, it.time,
             sn, bsdf, areaLight)
\* Vertex(const MediumInteraction &mi, const Spectrum &weight)
Vertex_Medium(it) ==
    MkVertex("medium", Medium, "mi", EI_Default, it.p, it.n, it.time, VZero,
             <<>>, NullRef)

\* The members of the payload the constructor initialised
Written(v) == IF v.wrote = "ei" THEN {"ei", v.ei.member} ELSE {v.wrote}

\* Result of an accessor: its value, the payload members it read, whether
\* Error() was called and whether an Assert failed.
Out(kind, val, reads, err, assertFailed) ==
    [kind |-> kind, val |-> val, reads |-> reads, err |-> err,
     assertFailed |-> assertFailed]
Val(val, reads) == Out("value", val, reads, FALSE, FALSE)

\* GetInteraction(): the member selected by the discriminant
GetInteraction_DefaultMi(v) ==
    IF v.type = Surface THEN "isect" ELSE "mi"

GetInteraction(v) ==
    CASE v.type = Medium -> "mi"
      [] v.type = Surface -> "isect"
      [] OTHER -> "ei"

GetPosition(v) == Val(v.p, {GetInteraction(v)})
GetTime(v) == Val(v.time, {GetInteraction(v)})
GetGeoNormal(v) == Val(v.n, {GetInteraction(v)})
GetShadingNormal(v) ==
    IF v.type = Surface THEN Val(v.sn, {"isect"})
    ELSE Val(v.n, {GetInteraction(v)})
IsOnSurface(v) == Val(GetGeoNormal(v).val # VZero, GetGeoNormal(v).reads)

IsConnectable_AlwaysTrue(v) == Val(TRUE, {})

IsConnectable(v) ==
    IF v.type = Surface
    THEN Val(NumComponents(v.bsdf, BSDF_NonSpecular) > 0, {"isect"})
    ELSE Val(TRUE, {})

IsLight(v) ==
    IF v.type = Light THEN Val(TRUE, {})
    ELSE IF v.type = Surface THEN Val(v.areaLight # NullRef, {"isect"})
    ELSE Val(FALSE, {})

IsDeltaLight(v) ==
    IF v.type # Light THEN Val(FALSE, {})
    ELSE IF v.ei.ref = NullRef THEN Val(FALSE, {"ei", "light"})
    ELSE Val(FlagsIsDeltaLight(FlagsOf(v.ei.ref)), {"ei", "light"})

IsInfiniteLight_BitTest(v) ==
    IF v.type # Light THEN Val(FALSE, {})
    ELSE Val(v.ei.ref = NullRef \/ "Infinite" \in FlagsOf(v.ei.ref),
             {"ei", "light"})

IsInfiniteLight_AnyType(v) ==
    IF v.type \in {Camera, Medium} \/ v.type = OtherType THEN Val(TRUE, {})
    ELSE IF v.type = Surface
    THEN Val(v.areaLight = NullRef \/ FlagsOf(v.areaLight) = LF_Infinite,
             {"isect"})
    ELSE Val(v.ei.ref = NullRef \/ FlagsOf(v.ei.ref) = LF_Infinite,
             {"ei", "light"})

IsInfiniteLight(v) ==
    IF v.type # Light THEN Val(FALSE, {})
    ELSE Val(v.ei.ref = NullRef \/ FlagsOf(v.ei.ref) = LF_Infinite,
             {"ei", "light"})

(***************************************************************************)
(* Densities.  A density value is c * Pi^(-pi) with c an exact rational.   *)
(* The inputs of a query: tgt, the other vertex (position p, geometric     *)
(* normal n, inf: whether it is an infinite light); r, the scene's         *)
(* bounding-sphere radius; ext, the value the external collaborator        *)
(* (Camera::Pdf, BSDF::Pdf, BSDF::f, PhaseFunction::p, Light::Pdf)         *)
(* reports; ndebug, whether Assert is compiled out; junk, what a read      *)
(* through an invalid pointer produces.                                    *)
(***************************************************************************)
MaxRadius == 2
MaxPdf == 2

PdfVal(c, pi) == [c |-> c, pi |-> pi]
PdfZero == PdfVal(RZero, 0)

Junk == {"crash", "zero", "one"}
JunkOut(junk, reads) ==
    IF junk = "crash" THEN Out("crash", PdfZero, reads, FALSE, TRUE)
    ELSE Out("value", PdfVal(IF junk = "zero" THEN RZero ELSE ROne, 0),
             reads, FALSE, TRUE)

\* InfiniteLightDensity(scene, lightDistr, d)  (bdpt.h 79-87)
RECURSIVE InfiniteLightSum(_, _)
InfiniteLightSum(i, ext) ==
    IF i > Len(sceneLights) THEN 0
    ELSE (IF sceneLights[i] = LF_Infinite THEN ext * lightDistrFunc[i] ELSE 0)
         + InfiniteLightSum(i + 1, ext)
InfiniteLightDensity(ext) == Rat(InfiniteLightSum(1, ext), FuncIntTimesCount)

\* ConvertDensity(cur, pdfDir, next): declared at bdpt.h 78, defined
\* elsewhere; pdfDir * |cos| / d^2, the distance term dropped for an
\* infinite light
ConvertDensity(cur, pdfDir, next) ==
    IF next.inf THEN PdfVal(pdfDir, 0)
    ELSE LET w == VSub(next.p, cur.p)
             invDist2 == Rat(1, LengthSquared(w))
             onSurf == IF next.n # VZero
                       THEN RMul(pdfDir, AbsDotNormalized(next.n, w))
                       ELSE pdfDir
         IN PdfVal(RMul(onSurf, invDist2), 0)

\* The light PdfLight and PdfLightOrigin select (bdpt.h 252-254, 277-279)
SelectedLight(v) == IF v.type = Light THEN v.ei.ref ELSE v.areaLight
SelectedLightReads(v) == IF v.type = Light THEN {"ei", "light"} ELSE {"isect"}

\* Vertex::PdfLight(scene, v)
PdfLight_NoCosine(v, in) ==
    Val(PdfVal(Rat(1, in.r * in.r), 1),
        SelectedLightReads(v) \cup {GetInteraction(v)})

PdfLight(v, in) ==
    LET reads == IsLight(v).reads \cup SelectedLightReads(v)
                   \cup {GetInteraction(v)}
        d == VSub(in.tgt.p, v.p)
        invL2 == Rat(1, LengthSquared(d))
        pdf == IF IsInfiniteLight(v).val
               THEN PdfVal(Rat(1, in.r * in.r), 1)
               ELSE PdfVal(RMul(Rat(in.ext, 1), invL2), 0)
    IN IF ~IsLight(v).val
       THEN IF ~in.ndebug
            THEN Out("abort", PdfZero, IsLight(v).reads, FALSE, TRUE)
            ELSE JunkOut(in.junk, reads)
       ELSE IF in.tgt.n # VZero
            THEN Val(PdfVal(RMul(pdf.c, AbsDotNormalized(in.tgt.n, d)),
                            pdf.pi), reads)
            ELSE Val(pdf, reads)

\* Vertex::PdfLightOrigin(scene, v, lightDistr)
PdfChoice(light) == Rat(lightDistrFunc[light.idx], FuncIntTimesCount)
PdfLightOrigin(v, in) ==
    LET reads == IsLight(v).reads \cup SelectedLightReads(v)
                   \cup {GetInteraction(v)}
    IN IF ~IsLight(v).val
       THEN IF ~in.ndebug
            THEN Out("abort", PdfZero, IsLight(v).reads, FALSE, TRUE)
            ELSE JunkOut(in.junk, reads)
       ELSE IF IsInfiniteLight(v).val
            THEN Val(PdfVal(InfiniteLightDensity(in.ext), 0), reads)
            ELSE Val(PdfVal(RMul(Rat(in.ext, 1),
                                 PdfChoice(SelectedLight(v))), 0), reads)

\* Vertex::Pdf(scene, prev, next)
Pdf(v, in) ==
    IF v.type = Light THEN PdfLight(v, in)
    ELSE IF v.type = Camera
    THEN Val(ConvertDensity(v, Rat(in.ext, 1), in.tgt),
             {GetInteraction(v), "ei", "camera"})
    ELSE IF v.type = Surface
    THEN Val(ConvertDensity(v, Rat(in.ext, 1), in.tgt),
             {GetInteraction(v), "isect"})
    ELSE IF v.type = Medium
    THEN Val(ConvertDensity(v, Rat(in.ext, 1), in.tgt),
             {GetInteraction(v), "mi"})
    ELSE Out("value", PdfZero, {GetInteraction(v)}, TRUE, FALSE)

\* Vertex::f(next): a Spectrum, here a single non-negative coefficient
Vertex_f_PassThrough(v, in) ==
    IF v.type = Surface THEN Val(in.ext, {GetInteraction(v), "isect"})
    ELSE IF v.type = Medium THEN Val(in.ext, {GetInteraction(v), "mi"})
    ELSE Out("value", in.ext, {GetInteraction(v)}, TRUE, FALSE)

Vertex_f(v, in) ==
    IF v.type = Surface THEN Val(in.ext, {GetInteraction(v), "isect"})
    ELSE IF v.type = Medium THEN Val(in.ext, {GetInteraction(v), "mi"})
    ELSE Out("value", 0, {GetInteraction(v)}, TRUE, FALSE)

(***************************************************************************)
(* Specification SpecVertex: a vertex is constructed, then queried.        *)
(***************************************************************************)
NoRes == [op |-> "none"]
NoIn == [tgt |-> [p |-> VZero, n |-> VZero, inf |-> FALSE], r |-> 1,
         ext |-> 0, ndebug |-> TRUE, junk |-> "crash"]

\* Storing a newly constructed vertex
Construct(v) ==
    /\ vtx' = v
    /\ UNCHANGED <<res, guardVars, connVars>>

\* Vertex(VertexType::Camera, EndpointInteraction(it, camera), weight)
ConstructCameraFromInteraction ==
    /\ vtx = NoVertex
    /\ \E it \in Interactions, type \in {Camera, OtherType} :
        Construct(Vertex_Endpoint(type, EI_FromInteractionCamera(it, CameraRef)))

\* Vertex(VertexType::Camera, EndpointInteraction(camera, ray), weight)
ConstructCameraFromRay ==
    /\ vtx = NoVertex
    /\ \E ray \in Rays, type \in {Camera, OtherType} :
        Construct(Vertex_Endpoint(type, EI_FromCameraRay(CameraRef, ray)))

\* Vertex(VertexType::Light, EndpointInteraction(light, ray, n), weight)
ConstructLightFromRay ==
    /\ vtx = NoVertex
    /\ \E light \in LightRefs, ray \in Rays, nl \in Normals,
          type \in {Light, OtherType} :
        Construct(Vertex_Endpoint(type, EI_FromLightRay(light, ray, nl)))

\* Vertex(VertexType::Light, EndpointInteraction(it, light), weight)
ConstructLightFromInteraction ==
    /\ vtx = NoVertex
    /\ \E it \in Interactions, light \in LightRefs,
          type \in {Light, OtherType} :
        Construct(Vertex_Endpoint(type, EI_FromInteractionLight(it, light)))

\* Vertex(VertexType::Light, EndpointInteraction(ray), weight)
ConstructEscaped ==
    /\ vtx = NoVertex
    /\ \E ray \in Rays, type \in {Light, OtherType} :
        Construct(Vertex_Endpoint(type, EI_FromRay(ray)))

\* Vertex(isect, weight): isect.bsdf is set, the primitive may be an emitter
ConstructSurface ==
    /\ vtx = NoVertex
    /\ \E it \in Interactions, sn \in Normals \ {VZero}, bsdf \in BSDFs,
          al \in {NullRef} \cup {LightRef(i) : i \in AreaLightIdx} :
        /\ it.n # VZero
        /\ Construct(Vertex_Surface(it, sn, bsdf, al))

\* Vertex(mi, weight): a medium interaction has no normal
ConstructMedium ==
    /\ vtx = NoVertex
    /\ \E it \in Interactions :
        /\ it.n = VZero
        /\ Construct(Vertex_Medium(it))

\* Vertex(): an array slot that was allocated and not written yet
ConstructDefault ==
    /\ vtx = NoVertex
    /\ \E type \in VertexTypes \cup {OtherType} :
        Construct(Vertex_Default(type))

Targets == [p : Points, n : Normals, inf : BOOLEAN]
Inputs == [tgt : Targets, r : 1..MaxRadius, ext : 0..MaxPdf,
           ndebug : BOOLEAN, junk : Junk]

\* The other vertex lies at a different point, at an integral distance
GeometryOk(v, in) ==
    /\ in.tgt.p # v.p
    /\ IsSquare(LengthSquared(VSub(in.tgt.p, v.p)))

\* A query may be made of a vertex one of the three constructors built
CanQuery == vtx.how \in Built /\ res = NoRes
Query(op, in, out) ==
    /\ res' = [op |-> op, in |-> in, out |-> out]
    /\ UNCHANGED <<vtx, guardVars, connVars>>

Q_GetInteraction ==
    /\ CanQuery
    /\ Query("GetInteraction", NoIn,
             Val(GetInteraction(vtx), {GetInteraction(vtx)}))
Q_GetPosition ==
    /\ CanQuery
    /\ Query("GetPosition", NoIn, GetPosition(vtx))
Q_GetTime ==
    /\ CanQuery
    /\ Query("GetTime", NoIn, GetTime(vtx))
Q_GetGeoNormal ==
    /\ CanQuery
    /\ Query("GetGeoNormal", NoIn, GetGeoNormal(vtx))
Q_GetShadingNormal ==
    /\ CanQuery
    /\ Query("GetShadingNormal", NoIn, GetShadingNormal(vtx))
Q_IsOnSurface ==
    /\ CanQuery
    /\ Query("IsOnSurface", NoIn, IsOnSurface(vtx))
Q_IsConnectable ==
    /\ CanQuery
    /\ Query("IsConnectable", NoIn, IsConnectable(vtx))
Q_IsLight ==
    /\ CanQuery
    /\ Query("IsLight", NoIn, IsLight(vtx))
Q_IsDeltaLight ==
    /\ CanQuery
    /\ Query("IsDeltaLight", NoIn, IsDeltaLight(vtx))
Q_IsInfiniteLight ==
    /\ CanQuery
    /\ Query("IsInfiniteLight", NoIn, IsInfiniteLight(vtx))

\* ndebug and junk matter only when the Assert fails
AssertInputs(v, in) ==
    IF IsLight(v).val THEN in.ndebug /\ in.junk = "crash"
    ELSE in.ndebug \/ in.junk = "crash"

Q_PdfLight ==
    /\ CanQuery
    /\ \E in \in Inputs :
        /\ GeometryOk(vtx, in)
        /\ AssertInputs(vtx, in) /\ ~in.tgt.inf
        /\ Query("PdfLight", in, PdfLight(vtx, in))

Q_PdfLightOrigin ==
    /\ CanQuery
    /\ \E in \in Inputs :
        /\ GeometryOk(vtx, in)
        /\ AssertInputs(vtx, in) /\ ~in.tgt.inf /\ in.r = 1
        /\ in.tgt.n = VZero
        /\ Query("PdfLightOrigin", in, PdfLightOrigin(vtx, in))

Q_Pdf ==
    /\ CanQuery
    /\ \E in \in Inputs :
        /\ GeometryOk(vtx, in)
        /\ in.ndebug /\ in.junk = "crash"
        /\ IF vtx.type = Light THEN ~in.tgt.inf ELSE in.r = 1
        /\ Query("Pdf", in, Pdf(vtx, in))

Q_f ==
    /\ CanQuery
    /\ \E in \in Inputs :
        /\ GeometryOk(vtx, in)
        /\ in.ndebug /\ in.junk = "crash" /\ in.r = 1
        /\ ~in.tgt.inf /\ in.tgt.n = VZero
        /\ Query("f", in, Vertex_f(vtx, in))

NextVertex ==
    \/ ConstructCameraFromInteraction
    \/ ConstructCameraFromRay
    \/ ConstructLightFromRay
    \/ ConstructLightFromInteraction
    \/ ConstructEscaped
    \/ ConstructSurface
    \/ ConstructMedium
    \/ ConstructDefault
    \/ Q_GetInteraction
    \/ Q_GetPosition
    \/ Q_GetTime
    \/ Q_GetGeoNormal
    \/ Q_GetShadingNormal
    \/ Q_IsOnSurface
    \/ Q_IsConnectable
    \/ Q_IsLight
    \/ Q_IsDeltaLight
    \/ Q_IsInfiniteLight
    \/ Q_PdfLight
    \/ Q_PdfLightOrigin
    \/ Q_Pdf
    \/ Q_f

InitVertex ==
    /\ vtx = NoVertex
    /\ res = NoRes
    /\ mem = [f \in Fields |-> 0]
    /\ orig = mem
    /\ guards = [k \in 1..NumGuards |-> NoGuard]
    /\ gpc = "idle"
    /\ nops = 0
    /\ path = <<>>
    /\ conn = [pc |-> "idle"]

SpecVertex == InitVertex /\ [][NextVertex]_vars

(***************************************************************************)
(* Claims about Vertex and EndpointInteraction (specification SpecVertex)  *)
(***************************************************************************)
Queried(op) == res # NoRes /\ res.op = op
PurelySpecular(bsdf) == \A i \in DOMAIN bsdf : "SPECULAR" \in bsdf[i]

\* C3: IsConnectable() returns false exactly for Surface vertices whose BSDF
\* has no component without the specular bit; it returns true for every
\* Camera, Light and Medium vertex and for every other Surface vertex.
C3_IsConnectable ==
    Queried("IsConnectable") =>
        /\ res.out.val = FALSE
              <=> (vtx.type = Surface /\ PurelySpecular(vtx.bsdf))
        /\ res.out.val = FALSE
              <=> (vtx.type = Surface
                     /\ NumComponents(vtx.bsdf, BSDF_NonSpecular) = 0)

C3_Witness ==
    /\ Queried("IsConnectable")
    /\ vtx.type = Surface /\ vtx.bsdf # <<>> /\ PurelySpecular(vtx.bsdf)
    /\ res.out.val = FALSE

\* The light a vertex refers to: the endpoint's light for a Light vertex,
\* the primitive's area light for a Surface vertex, none otherwise.
LightReference(v) ==
    IF v.type = Light THEN v.ei.ref
    ELSE IF v.type = Surface THEN v.areaLight ELSE NullRef
NullOrInfinite(ref) == ref = NullRef \/ FlagsOf(ref) = LF_Infinite

\* C4 as stated: for every vertex of every type, IsInfiniteLight() is true
\* iff the vertex's light reference is null or the light is flagged Infinite
\* (stated here for the types that hold a light reference of their own).
C4_AnyType ==
    (Queried("IsInfiniteLight") /\ vtx.type \in {Light, Surface}) =>
        (res.out.val <=> NullOrInfinite(LightReference(vtx)))

\* C4 amended: IsInfiniteLight() is true iff the vertex is of type Light and
\* its light reference is null or flagged exactly Infinite; it is false for
\* every vertex of another type, whatever light it refers to.
C4_LightOnly ==
    Queried("IsInfiniteLight") =>
        (res.out.val <=> (vtx.type = Light /\ NullOrInfinite(vtx.ei.ref)))

C4_Witness ==
    /\ Queried("IsInfiniteLight")
    /\ vtx.type = Light /\ vtx.ei.ref # NullRef
    /\ FlagsOf(vtx.ei.ref) = LF_Infinite
    /\ res.out.val = TRUE

\* C5 as stated: for a vertex that is an infinite light PdfLight returns
\* 1/(Pi r^2) whatever the target vertex's position and geometric normal.
C5_Constant ==
    (Queried("PdfLight") /\ IsInfiniteLight(vtx).val) =>
        /\ res.out.kind = "value"
        /\ res.out.val = PdfVal(Rat(1, res.in.r * res.in.r), 1)

\* C5 amended: for a vertex that is an infinite light PdfLight returns
\* 1/(Pi r^2) when the target has a zero geometric normal, and
\* |n . d| / (Pi r^2) when the target lies on a surface with normal n, d
\* being the unit direction from the light vertex to the target.
C5_TimesCosine ==
    (Queried("PdfLight") /\ IsInfiniteLight(vtx).val) =>
        LET d == VSub(res.in.tgt.p, vtx.p)
            len == ISqrt(LengthSquared(d))
            r2 == res.in.r * res.in.r
            c == res.out.val.c
        IN /\ res.out.kind = "value"
           /\ res.out.val.pi = 1
           /\ IF res.in.tgt.n = VZero
              THEN c.n * r2 = c.d
              ELSE c.n * r2 * len = c.d * Abs(Dot(res.in.tgt.n, d))

C5_Witness ==
    /\ Queried("PdfLight") /\ IsInfiniteLight(vtx).val
    /\ res.in.tgt.n # VZero
    /\ res.out.val.c # RZero
    /\ res.out.val.c # Rat(1, res.in.r * res.in.r)

ZeroReported(out, zero) ==
    out.kind = "value" /\ out.val = zero /\ out.err

\* C6 as stated: an operation invoked on an incompatible variant is reported
\* and yields zero: f on a Camera or Light vertex, Pdf on an unsupported
\* type, and PdfLight / PdfLightOrigin on a vertex that is not a light (the
\* latter without touching a light reference).
C6_ZeroFallback ==
    /\ (Queried("f") /\ vtx.type \in {Camera, Light})
          => ZeroReported(res.out, 0)
    /\ (Queried("Pdf") /\ vtx.type \notin VertexTypes)
          => ZeroReported(res.out, PdfZero)
    /\ ((Queried("PdfLight") \/ Queried("PdfLightOrigin"))
            /\ ~IsLight(vtx).val)
          => /\ res.out.kind = "value"
             /\ res.out.val = PdfZero

\* C6 amended: f on a Camera or Light vertex and Pdf on a type that is none
\* of the four enumerators call Error() and return zero; PdfLight and
\* PdfLightOrigin have no such fallback: on a vertex that is not a light
\* their Assert(IsLight()) fails, which ends the call where Assert is
\* compiled in and otherwise lets it read the surface payload's primitive.
C6_ErrorOrAssert ==
    /\ (Queried("f") /\ vtx.type \in {Camera, Light})
          => ZeroReported(res.out, 0)
    /\ (Queried("Pdf") /\ vtx.type \notin VertexTypes)
          => ZeroReported(res.out, PdfZero)
    /\ ((Queried("PdfLight") \/ Queried("PdfLightOrigin"))
            /\ ~IsLight(vtx).val)
          => /\ res.out.assertFailed /\ ~res.out.err
             /\ IF res.in.ndebug THEN "isect" \in res.out.reads
                ELSE res.out.kind = "abort"

C6_Witness ==
    /\ Queried("f") /\ vtx.type = Light /\ res.in.ext > 0
    /\ res.out.val = 0 /\ res.out.err

EscapedFromRay(v) ==
    /\ v.ei.mode = "e"
    /\ v.p = RayAt(v.ei.ray, 1)
    /\ v.n = VNeg(v.ei.ray.d)

C10_DeltaInfiniteExclusive ==
    vtx.how \in Built =>
        LET dl == IsDeltaLight(vtx).val
            il == IsInfiniteLight(vtx).val
        IN /\ ~(dl /\ il)
           /\ dl => IsLight(vtx).val
           /\ il => IsLight(vtx).val
           /\ (vtx.type = Light /\ vtx.ei.ref = NullRef) => (il /\ ~dl)
           /\ (vtx.type = Light /\ vtx.ei.ref # NullRef /\ il)
                 => FlagsOf(vtx.ei.ref) = LF_Infinite

C10_Witness ==
    /\ Queried("IsDeltaLight") /\ res.out.val = TRUE
    /\ "Infinite" \in FlagsOf(vtx.ei.ref)
    /\ ~IsInfiniteLight(vtx).val

(***************************************************************************)
(* ConnectBDPT and its MIS weight (declared at bdpt.h 337-341; the body is *)
(* not part of bdpt.h and follows sections 4.4 and 8 of the design).       *)
(*                                                                         *)
(* A fused path has n vertices x[1] (on the light) .. x[n] (on the camera) *)
(* with, for each, pL: the area density of generating it from the light    *)
(* side, pC: the density of generating it from the camera side, and spec:  *)
(* whether it scatters specularly only (flagged delta, not connectable).   *)
(* Strategy (s, t), s + t = n, uses lightSubpath[1..s] = x[1..s] and       *)
(* cameraSubpath[1..t] = x[n], x[n-1], .., x[s+1].                         *)
(***************************************************************************)
MaxPathLen == 3
Densities == {1, 2}
PathLights == {LightRef(1), LightRef(3)}

Paths ==
    UNION { { [n |-> n, pL |-> pl, pC |-> pc, spec |-> sp, light |-> l] :
                pl \in [1..n -> Densities], pc \in [1..n -> Densities],
                sp \in {f \in [1..n -> BOOLEAN] : ~f[1] /\ ~f[n]},
                l \in PathLights }
            : n \in 2..MaxPathLen }

\* x[1] as a Vertex: a light sampled on the light source
PathLightVertex(pa) ==
    Vertex_Endpoint(Light,
        EI_FromLightRay(pa.light, [o |-> VZero, d |-> <<1, 0>>, time |-> 0],
                        VZero))

\* The fields of the two vertex arrays as one memory map
VFields == {"pdfFwd", "pdfRev", "delta"}
Addrs(s, t) == {<<"L", i, f>> : i \in 1..s, f \in VFields}
                 \cup {<<"C", j, f>> : j \in 1..t, f \in VFields}

\* The arrays as the subpath generators left them: the reverse density of
\* the last two vertices of each prefix, and the delta flag of the last
\* one, belong to the walk that went on from there (stale).
SubpathArrays(pa, s, staleP, staleD) ==
    LET t == pa.n - s
        LightField(i, f) ==
            CASE f = "pdfFwd" -> pa.pL[i]
              [] f = "pdfRev" -> IF i >= s - 1 THEN staleP ELSE pa.pC[i]
              [] f = "delta" -> IF i = 1 THEN FALSE
                                ELSE IF i = s THEN staleD ELSE pa.spec[i]
        CameraField(j, f) ==
            LET k == pa.n + 1 - j IN
            CASE f = "pdfFwd" -> pa.pC[k]
              [] f = "pdfRev" -> IF j >= t - 1 THEN staleP ELSE pa.pL[k]
              [] f = "delta" -> IF j = 1 THEN FALSE
                                ELSE IF j = t THEN staleD ELSE pa.spec[k]
    IN [a \in Addrs(s, t) |->
          IF a[1] = "L" THEN LightField(a[2], a[3])
          ELSE CameraField(a[2], a[3])]

\* a = {ptr, value}: a temporary guard is constructed on ptr, moved into the
\* (empty) guard a and destroyed
Install(m, ptr, value) ==
    LET c == SA_Construct(m, ptr, value, 0)
        e == SA_Construct(c.m, nullptr, 0, 0)
        a == SA_MoveAssign(e.g, c.g)
    IN [m |-> SA_Destroy(c.m, a.other), g |-> a.this]

\* The guards MISWeight installs, in order: the delta flags of pt and qs,
\* then the reverse densities of pt, ptMinus, qs and qsMinus recomputed for
\* the connecting edge.
GuardPlan(pa, s) ==
    LET t == pa.n - s IN
    << [ptr |-> <<"C", t, "delta">>, value |-> FALSE],
       [ptr |-> IF s > 0 THEN <<"L", s, "delta">> ELSE nullptr,
        value |-> FALSE],
       [ptr |-> <<"C", t, "pdfRev">>, value |-> pa.pL[s + 1]],
       [ptr |-> IF t > 1 THEN <<"C", t - 1, "pdfRev">> ELSE nullptr,
        value |-> IF t > 1 THEN pa.pL[s + 2] ELSE 0],
       [ptr |-> IF s > 0 THEN <<"L", s, "pdfRev">> ELSE nullptr,
        value |-> IF s > 0 THEN pa.pC[s] ELSE 0],
       [ptr |-> IF s > 1 THEN <<"L", s - 1, "pdfRev">> ELSE nullptr,
        value |-> IF s > 1 THEN pa.pC[s - 1] ELSE 0] >>

\* Installing the first k guards of a plan: the memory and the guards
RECURSIVE InstallAll(_, _, _)
InstallAll(m, plan, k) ==
    IF k = 0 THEN [m |-> m, gs |-> <<>>]
    ELSE LET prev == InstallAll(m, plan, k - 1)
             one == Install(prev.m, plan[k].ptr, plan[k].value)
         IN [m |-> one.m, gs |-> Append(prev.gs, one.g)]

\* Scope exit: the guards are destroyed in reverse order of declaration
RECURSIVE DestroyAll(_, _)
DestroyAll(m, gs) ==
    IF gs = <<>> THEN m
    ELSE DestroyAll(SA_Destroy(m, gs[Len(gs)]), SubSeq(gs, 1, Len(gs) - 1))

\* The factor a vertex contributes to a ratio of strategy densities
Ratio(m, side, i) ==
    IF m[<<side, i, "delta">>] THEN ROne
    ELSE Rat(m[<<side, i, "pdfRev">>], m[<<side, i, "pdfFwd">>])

\* Strategies with fewer camera vertices: t' = j - 1 for j = t .. 2
RECURSIVE CameraWalk(_, _, _, _)
CameraWalk(m, j, ri, sumRi) ==
    IF j < 2 THEN sumRi
    ELSE LET r2 == RMul(ri, Ratio(m, "C", j)) IN
         CameraWalk(m, j - 1, r2,
                    IF ~m[<<"C", j, "delta">>] /\ ~m[<<"C", j - 1, "delta">>]
                    THEN RAdd(sumRi, r2) ELSE sumRi)

\* Strategies with fewer light vertices: s' = i - 1 for i = s .. 1
RECURSIVE LightWalk(_, _, _, _, _)
LightWalk(m, i, ri, sumRi, deltaLight) ==
    IF i < 1 THEN sumRi
    ELSE LET r2 == RMul(ri, Ratio(m, "L", i))
             deltaLightVertex == IF i > 1 THEN m[<<"L", i - 1, "delta">>]
                                 ELSE deltaLight
         IN LightWalk(m, i - 1, r2,
                      IF ~m[<<"L", i, "delta">>] /\ ~deltaLightVertex
                      THEN RAdd(sumRi, r2) ELSE sumRi,
                      deltaLight)

\* MISWeight: balance heuristic over the strategies of the same path length
MISWeight(pa, m, s) ==
    LET t == pa.n - s
        plan == GuardPlan(pa, s)
        inst == InstallAll(m, plan, Len(plan))
        sumC == CameraWalk(inst.m, t, ROne, RZero)
        sumRi == LightWalk(inst.m, s, ROne, sumC,
                           IsDeltaLight(PathLightVertex(pa)).val)
    IN [weight |-> RInv(RAdd(ROne, sumRi)),
        during |-> inst.m,
        after |-> DestroyAll(inst.m, inst.gs)]

\* Whether strategy (s, n - s) connects two connectable vertices (s = 0:
\* the camera path's last vertex is a light a path can hit)
Connects(pa, s) ==
    IF s = 0 THEN ~IsDeltaLight(PathLightVertex(pa)).val
    ELSE ~pa.spec[s] /\ ~pa.spec[s + 1]

NoCall == [s |-> -1, weighted |-> FALSE, before |-> <<>>, during |-> <<>>,
           after |-> <<>>, weight |-> RZero]

InitConnect ==
    /\ path \in Paths
    /\ conn = [pc |-> "calling", next |-> 0, sum |-> RZero, nvalid |-> 0,
               skipped |-> FALSE, call |-> NoCall]
    /\ vtx = [how |-> "none"]
    /\ res = [op |-> "none"]
    /\ mem = [f \in Fields |-> 0]
    /\ orig = mem
    /\ guards = [k \in 1..NumGuards |-> NoGuard]
    /\ gpc = "idle"
    /\ nops = 0

\* ConnectBDPT(scene, lightSubpath, cameraSubpath, s, t, ...): the strategies
\* of the path are tried in turn.  black: the unweighted contribution is
\* zero (an occluded or zero-throughput connection), which returns before
\* any weight is computed, as does a connection to a vertex that is not
\* connectable.
ConnectBDPT ==
    /\ conn.pc = "calling"
    /\ \E staleP \in {0} \cup Densities, staleD \in BOOLEAN,
          black \in IF Connects(path, conn.next) THEN BOOLEAN ELSE {TRUE} :
         \E before \in {SubpathArrays(path, conn.next, staleP, staleD)} :
         \E call \in
              { IF Connects(path, conn.next) /\ ~black
                THEN [s |-> conn.next, weighted |-> TRUE, before |-> before]
                        @@ MISWeight(path, before, conn.next)
                ELSE [s |-> conn.next, weighted |-> FALSE, before |-> before,
                      during |-> before, after |-> before,
                      weight |-> RZero] } :
            conn' = [pc |-> IF conn.next + 1 = path.n THEN "done"
                            ELSE "calling",
                     next |-> conn.next + 1,
                     sum |-> RAdd(conn.sum, call.weight),
                     nvalid |-> conn.nvalid
                                  + (IF Connects(path, conn.next) THEN 1 ELSE 0),
                     skipped |-> conn.skipped
                                   \/ (Connects(path, conn.next) /\ black),
                     call |-> call]
    /\ UNCHANGED <<path, vertexVars, guardVars>>

NextConnect == ConnectBDPT

SpecConnect == InitConnect /\ [][NextConnect]_vars

\* C1: on every exit path of ConnectBDPT each vertex of both subpath arrays
\* has, after the call, the pdfFwd, pdfRev and delta it had before the call.
C1_ArraysRestored ==
    conn.call.s >= 0 => conn.call.after = conn.call.before

C1_Witness ==
    /\ conn.call.s >= 1 /\ path.n - conn.call.s >= 2
    /\ conn.call.weighted
    /\ conn.call.during[<<"L", conn.call.s, "pdfRev">>]
          # conn.call.before[<<"L", conn.call.s, "pdfRev">>]
    /\ conn.call.during[<<"C", path.n - conn.call.s, "delta">>]
          # conn.call.before[<<"C", path.n - conn.call.s, "delta">>]
    /\ conn.call.after = conn.call.before

\* C2: the balance-heuristic weights computed for all the valid strategies
\* of one fused path sum to exactly 1, a vertex flagged delta contributing
\* a factor of 1 to each ratio.
C2_WeightsSumToOne ==
    (conn.pc = "done" /\ ~conn.skipped /\ conn.nvalid > 0) => conn.sum = ROne

C2_Witness ==
    /\ conn.pc = "done" /\ ~conn.skipped /\ conn.nvalid >= 2
    /\ path.n >= 3 /\ \E i \in 1..path.n : path.pL[i] # path.pC[i]
    /\ conn.call.weight \notin {RZero, ROne}
    /\ conn.sum = ROne

\* C9: for any sequence of ScopedAssign operations in a scope (empty guards,
\* guards on a field, move-assignment into empty or armed guards, several
\* guards on one field), once every guard is destroyed each field holds the
\* value it had before the first guard was installed on it.
C9_AllRestored == gpc = "done" => mem = orig

====
